---- MODULE Spec2Model ----
(***************************************************************************)
(* Model of the job backlog manager of multi-reindex (src/app/manager.js). *)
(* The shared store (redis) is three keys: the list backlog_queue and the  *)
(* hashes backlog_hset and completed.  Every store call is one atomic      *)
(* step; the steps of one manager call are separate steps, so calls of     *)
(* different clients interleave between store calls.                       *)
(***************************************************************************)
EXTENDS Integers, Sequences, FiniteSets, TLC

\* ------------------------------------------------------------------ bounds
NumClients == 3

\* ---------------------------------------------------------------- universe
\* null: no list element, no hash field, no string
NULL == <<>>
\* the result of parseInt on something that is not a number
NaN == -1

IndexNames == {"A", "B"}
TypeNames == {"t1", "t2"}
CountValues == {0, 7, 12}

\* ------------------------------------------------------------ store values
\* The store keeps hash values as strings: a string of decimal digits is a
\* sequence of digits.
Digits == 0..9

RECURSIVE String(_)
String(n) ==
  IF n < 10 THEN <<n>> ELSE Append(String(n \div 10), n % 10)

RECURSIVE parseIntDigits(_, _)
parseIntDigits(s, acc) ==
  IF s = <<>> THEN acc
  ELSE IF Head(s) \in Digits THEN parseIntDigits(Tail(s), 10 * acc + Head(s))
  ELSE acc

parseInt(s) ==
  IF s = NULL THEN NaN
  ELSE IF Head(s) \notin Digits THEN NaN
  ELSE parseIntDigits(s, 0)

\* ------------------------------------------------------------------- Job
\* A job id is the index name, a separator and the type name.
SEPARATOR == ":"

Job(params) ==
  [index |-> params.index, type |-> params.type, count |-> params.count]

getID(job) == <<job.index, SEPARATOR, job.type>>

createFromID(jobID, count) ==
  Job([index |-> jobID[1], type |-> jobID[3], count |-> parseInt(count)])

JobIDs == {getID([index |-> i, type |-> t]) : i \in IndexNames, t \in TypeNames}

Jobs == [index : IndexNames, type : TypeNames, count : CountValues]

\* what a call returns when it returns null
NoJob == [null |-> TRUE]

\* a module variable that holds no function (null)
NoFunction == [isFunction |-> FALSE]

\* no initialize call has been made
NoInitialize == [pc |-> "idle"]

\* ------------------------------------------------------------------ state
VARIABLES
  backlog_queue,   \* redis list BACKLOG_QUEUE_KEY: sequence of job ids
  backlog_hset,    \* redis hash BACKLOG_HSET_KEY: function job id -> string
  completed,       \* redis hash COMPLETED_KEY: function job id -> string
  pc,              \* pc[c]: where client c stands in its manager call
  local,           \* local[c]: the values the pending callbacks of c hold
  calls,           \* calls[c]: the last two calls client c finished, newest last
  seeded,          \* the job ids the backlog queue held when the run started
  indexFilter,     \* module variable indexFilter: null or a predicate on names
  indexComparator, \* module variable indexComparator: null or an ordering
  typeFilter,      \* module variable typeFilter: null or a predicate on names
  init,            \* the initialize call: its stage and the values it holds
  source,          \* module variable source: the handle the last constructor got
  redis,           \* module variable redis: the handle the last constructor got
  instances,       \* the Manager objects constructed, each with its self.source
  totalCount       \* module variable totalCount of count enrichment

configVars == <<indexFilter, indexComparator, typeFilter>>

handleVars == <<source, redis, instances>>

vars == <<backlog_queue, backlog_hset, completed, pc, local, calls, seeded,
          indexFilter, indexComparator, typeFilter, init,
          source, redis, instances, totalCount>>

Clients == 1..NumClients

\* new Manager(sourceEs, redisClient) has run once and no count has been added
Constructed ==
  /\ source = "sourceEs"
  /\ redis = "redisClient"
  /\ instances = [m \in {"manager"} |->
                    [source |-> "sourceEs", redisClient |-> "redisClient"]]
  /\ totalCount = 0

\* ------------------------------------------------------- store operations
\* A hash is a function from its fields to strings; the empty function is an
\* absent key.
EmptyHash == [id \in {} |-> NULL]

\* HSET that reports every field as new
hset_alwaysNew(h, field, value) ==
  [reply |-> 1,
   hash  |-> [f \in DOMAIN h \cup {field} |->
                IF f = field THEN String(value) ELSE h[f]]]

\* HSET replies 1 if the field is new and 0 if it existed; it writes the value
\* in both cases.
hset(h, field, value) ==
  [reply |-> IF field \in DOMAIN h THEN 0 ELSE 1,
   hash  |-> [f \in DOMAIN h \cup {field} |->
                IF f = field THEN String(value) ELSE h[f]]]

\* HGET that finds no field
hget_missing(h, field) == NULL

hget(h, field) == IF field \in DOMAIN h THEN h[field] ELSE NULL

\* HDEL that drops the whole key
hdel_key(h, field) == [f \in {} |-> NULL]

\* HDEL that deletes nothing
hdel_none(h, field) == h

hdel(h, field) == [f \in DOMAIN h \ {field} |-> h[f]]

\* a pop that reads the head and leaves it in the list
lpop_peek(q) ==
  IF q = <<>> THEN [reply |-> NULL, list |-> q]
  ELSE [reply |-> Head(q), list |-> q]

\* LPOP replies null on an empty list
lpop(q) ==
  IF q = <<>> THEN [reply |-> NULL, list |-> q]
  ELSE [reply |-> Head(q), list |-> Tail(q)]

\* a push to the front of the list
rpush_front(q, value) == <<value>> \o q

rpush(q, value) == Append(q, value)

\* The fields of a hash in the order the store enumerates them.
RECURSIVE hfields(_)
hfields(h) ==
  IF DOMAIN h = {} THEN <<>>
  ELSE LET f == CHOOSE x \in DOMAIN h : TRUE
       IN <<f>> \o hfields(hdel(h, f))

hvals(h) == [i \in 1..Len(hfields(h)) |-> h[hfields(h)[i]]]

RECURSIVE SeqSum(_)
SeqSum(s) == IF s = <<>> THEN 0 ELSE Head(s) + SeqSum(Tail(s))

Range(s) == {s[i] : i \in 1..Len(s)}

IsInjective(s) == \A i, j \in 1..Len(s) : s[i] = s[j] => i = j

\* ----------------------------------------------------------- client calls
NoLocal == [jobID |-> NULL, job |-> NoJob]

\* calls[c] keeps the newest `keep` finished calls of client c, newest last
Finished(c, call, keep) ==
  LET all == Append(calls[c], call) IN
    IF Len(all) <= keep THEN all
    ELSE [i \in 1..keep |-> all[Len(all) - keep + i]]

LastCall(c) == calls[c][Len(calls[c])]

\* fetchJob, first step: redis.lpop(BACKLOG_QUEUE_KEY)
fetchJob_lpop(c, keep) ==
  /\ pc[c] = "idle"
  /\ LET r == lpop(backlog_queue) IN
       /\ backlog_queue' = r.list
       /\ IF r.reply = NULL
          THEN /\ calls' = [calls EXCEPT ![c] =
                              Finished(c, [op |-> "fetchJob", job |-> NoJob], keep)]
               /\ UNCHANGED <<pc, local>>
          ELSE /\ pc' = [pc EXCEPT ![c] = "fetch_hget"]
               /\ local' = [local EXCEPT ![c].jobID = r.reply]
               /\ UNCHANGED calls
  /\ UNCHANGED <<backlog_hset, completed, seeded, configVars, handleVars, totalCount, init>>

\* fetchJob, second step: redis.hget(BACKLOG_HSET_KEY, jobID), Job.createFromID
fetchJob_hget(c) ==
  /\ pc[c] = "fetch_hget"
  /\ local' = [local EXCEPT ![c].job =
                 createFromID(local[c].jobID, hget(backlog_hset, local[c].jobID))]
  /\ pc' = [pc EXCEPT ![c] = "fetch_hdel"]
  /\ UNCHANGED <<backlog_queue, backlog_hset, completed, calls, seeded, configVars, handleVars, totalCount, init>>

\* a fetchJob that returns the job and leaves its hash field
fetchJob_hdel_keep(c, keep) ==
  /\ pc[c] = "fetch_hdel"
  /\ calls' = [calls EXCEPT ![c] =
                 Finished(c, [op |-> "fetchJob", job |-> local[c].job], keep)]
  /\ local' = [local EXCEPT ![c] = NoLocal]
  /\ pc' = [pc EXCEPT ![c] = "idle"]
  /\ UNCHANGED <<backlog_queue, backlog_hset, completed, seeded, configVars,
                 handleVars, totalCount, init>>

\* fetchJob, third step: redis.hdel(BACKLOG_HSET_KEY, job.getID()).return(job)
fetchJob_hdel(c, keep) ==
  /\ pc[c] = "fetch_hdel"
  /\ backlog_hset' = hdel(backlog_hset, getID(local[c].job))
  /\ calls' = [calls EXCEPT ![c] =
                 Finished(c, [op |-> "fetchJob", job |-> local[c].job], keep)]
  /\ local' = [local EXCEPT ![c] = NoLocal]
  /\ pc' = [pc EXCEPT ![c] = "idle"]
  /\ UNCHANGED <<backlog_queue, completed, seeded, configVars, handleVars, totalCount, init>>

\* What a finished queueJob call leaves in calls[c]: the job it was given, the
\* reply of its HSET, and whether the backlog (list and hash) was empty when
\* the call started.
QueueCall(job, numberAdded, wasEmpty) ==
  [op |-> "queueJob", job |-> job, numberAdded |-> numberAdded,
   wasEmpty |-> wasEmpty]

BacklogEmpty == backlog_queue = <<>> /\ DOMAIN backlog_hset = {}

\* queueJob, first step: redis.hset(BACKLOG_HSET_KEY, job.getID(), job.count);
\* a reply of 0 ends the call.
queueJob_hset(c, params, keep) ==
  /\ pc[c] = "idle"
  /\ LET job == Job(params)
         r   == hset(backlog_hset, getID(job), job.count)
     IN
       /\ backlog_hset' = r.hash
       /\ IF r.reply = 0
          THEN /\ calls' = [calls EXCEPT ![c] =
                   Finished(c, QueueCall(job, 0, BacklogEmpty), keep)]
               /\ UNCHANGED <<pc, local>>
          ELSE /\ pc' = [pc EXCEPT ![c] = "queue_rpush"]
               /\ local' = [local EXCEPT ![c] =
                   [jobID |-> NULL, job |-> job, wasEmpty |-> BacklogEmpty]]
               /\ UNCHANGED calls
  /\ UNCHANGED <<backlog_queue, completed, seeded, configVars, handleVars, totalCount, init>>

\* queueJob, second step: redis.rpush(BACKLOG_QUEUE_KEY, job.getID())
queueJob_rpush(c, keep) ==
  /\ pc[c] = "queue_rpush"
  /\ backlog_queue' = rpush(backlog_queue, getID(local[c].job))
  /\ calls' = [calls EXCEPT ![c] =
       Finished(c, QueueCall(local[c].job, 1, local[c].wasEmpty), keep)]
  /\ local' = [local EXCEPT ![c] = NoLocal]
  /\ pc' = [pc EXCEPT ![c] = "idle"]
  /\ UNCHANGED <<backlog_hset, completed, seeded, configVars, handleVars, totalCount, init>>

\* a completeJob that writes the key anew, with this job as its only field
completeJob_set(c, params, keep) ==
  /\ pc[c] = "idle"
  /\ LET job == Job(params) IN
       /\ completed' = hset(EmptyHash, getID(job), job.count).hash
       /\ calls' = [calls EXCEPT ![c] =
                      Finished(c, [op |-> "completeJob", job |-> job], keep)]
  /\ UNCHANGED <<backlog_queue, backlog_hset, pc, local, seeded, configVars,
                 handleVars, totalCount, init>>

\* completeJob: redis.hset(COMPLETED_KEY, job.getID(), job.count)
completeJob(c, params, keep) ==
  /\ pc[c] = "idle"
  /\ LET job == Job(params) IN
       /\ completed' = hset(completed, getID(job), job.count).hash
       /\ calls' = [calls EXCEPT ![c] =
                      Finished(c, [op |-> "completeJob", job |-> job], keep)]
  /\ UNCHANGED <<backlog_queue, backlog_hset, pc, local, seeded, configVars,
                 handleVars, totalCount, init>>

\* getBacklogJobs: hgetall, one Job per field
getBacklogJobs ==
  [i \in 1..Len(hfields(backlog_hset)) |->
     createFromID(hfields(backlog_hset)[i], backlog_hset[hfields(backlog_hset)[i]])]

\* a reduce that keeps the last value instead of adding it
RECURSIVE reduceParseInt_last(_, _)
reduceParseInt_last(counts, total) ==
  IF counts = <<>> THEN total
  ELSE reduceParseInt_last(Tail(counts), parseInt(Head(counts)))

\* getBacklogCount: hvals, the sum of parseInt of the values
RECURSIVE reduceParseInt(_, _)
reduceParseInt(counts, total) ==
  IF counts = <<>> THEN total
  ELSE reduceParseInt(Tail(counts), total + parseInt(Head(counts)))

getBacklogCount == reduceParseInt(hvals(backlog_hset), 0)

\* ------------------------------------------------- concurrent fetchJob calls
\* The backlog holds M < NumClients unique job ids, each with a count in the
\* hash; every client calls fetchJob once.
SeededQueues ==
  {q \in UNION {[1..n -> JobIDs] : n \in 0..(NumClients - 1)} : IsInjective(q)}

InitFetch ==
  /\ backlog_queue \in SeededQueues
  /\ backlog_hset \in [Range(backlog_queue) -> {String(n) : n \in CountValues}]
  /\ completed = EmptyHash
  /\ pc = [c \in Clients |-> "idle"]
  /\ local = [c \in Clients |-> NoLocal]
  /\ calls = [c \in Clients |-> <<>>]
  /\ seeded = backlog_queue
  /\ indexFilter = NoFunction
  /\ indexComparator = NoFunction
  /\ typeFilter = NoFunction
  /\ init = NoInitialize
  /\ Constructed

FetchOnce(c) == calls[c] = <<>> /\ fetchJob_lpop(c, 1)

FetchRead(c) == fetchJob_hget(c)

FetchDelete(c) == fetchJob_hdel(c, 1)

NextFetch ==
  \E c \in Clients : FetchOnce(c) \/ FetchRead(c) \/ FetchDelete(c)

SpecFetch == InitFetch /\ [][NextFetch]_vars

AllFetched == \A c \in Clients : calls[c] # <<>> /\ pc[c] = "idle"

Returned == {c \in Clients : calls[c] # <<>> /\ LastCall(c).job # NoJob}

\* C1: once every one of the N clients has finished its one fetchJob call on
\* a backlog of M < N unique ids, exactly M calls returned a Job, the other
\* N - M returned null, the returned ids are the M ids of the backlog, and at
\* no time have two calls returned the same id.
C1_ExactlyOnce ==
  /\ \A c, d \in Returned :
       getID(LastCall(c).job) = getID(LastCall(d).job) => c = d
  /\ AllFetched =>
       /\ Cardinality(Returned) = Len(seeded)
       /\ \A c \in Clients \ Returned : LastCall(c).job = NoJob
       /\ {getID(LastCall(c).job) : c \in Returned} = Range(seeded)

C1_Witness ==
  /\ AllFetched
  /\ Len(seeded) = 2
  /\ Cardinality(Returned) = 2
  /\ \E c \in Clients : LastCall(c).job = NoJob

\* ------------------------------------- one client, one call after the other
InitSeq ==
  /\ backlog_queue = <<>>
  /\ backlog_hset = EmptyHash
  /\ completed = EmptyHash
  /\ pc = [c \in Clients |-> "idle"]
  /\ local = [c \in Clients |-> NoLocal]
  /\ calls = [c \in Clients |-> <<>>]
  /\ seeded = <<>>
  /\ indexFilter = NoFunction
  /\ indexComparator = NoFunction
  /\ typeFilter = NoFunction
  /\ init = NoInitialize
  /\ Constructed

SeqQueue == \E job \in Jobs : queueJob_hset(1, job, 2)

SeqPush == queueJob_rpush(1, 2)

SeqFetch == fetchJob_lpop(1, 2)

SeqRead == fetchJob_hget(1)

SeqDelete == fetchJob_hdel(1, 2)

NextSeq == SeqQueue \/ SeqPush \/ SeqFetch \/ SeqRead \/ SeqDelete

SpecSeq == InitSeq /\ [][NextSeq]_vars

\* C4: from an empty backlog, queueJob(J) followed immediately by fetchJob()
\* returns a Job with J's id and J's count, and afterwards J's id is in
\* neither the list nor the hash and getBacklogCount() counts nothing of J.
RoundTripDone ==
  /\ pc[1] = "idle"
  /\ Len(calls[1]) = 2
  /\ calls[1][1].op = "queueJob"
  /\ calls[1][1].wasEmpty
  /\ calls[1][2].op = "fetchJob"

C4_RoundTrip ==
  RoundTripDone =>
    LET J == calls[1][1].job
        R == calls[1][2].job
    IN /\ R # NoJob
       /\ getID(R) = getID(J)
       /\ R.count = J.count
       /\ getID(J) \notin Range(backlog_queue)
       /\ getID(J) \notin DOMAIN backlog_hset
       /\ getBacklogCount = 0

C4_Witness == RoundTripDone /\ calls[1][1].job.count = 12

\* C5: a queueJob(J) whose id is already a field of the backlog hash changes
\* neither the list nor the hash (the stored count included).
DuplicateQueueStep(c) ==
  /\ pc[c] = "idle"
  /\ pc'[c] = "idle"
  /\ calls'[c] # calls[c]
  /\ calls'[c][Len(calls'[c])].op = "queueJob"

C5_DuplicateIsNoOp ==
  [][\A c \in Clients :
       DuplicateQueueStep(c) =>
         backlog_queue' = backlog_queue /\ backlog_hset' = backlog_hset]_vars

\* C6: getBacklogCount() is the sum of the counts of the jobs getBacklogJobs()
\* returns, and 0 when the hash is empty.
C6_CountIsSumOfJobs ==
  /\ getBacklogCount = SeqSum([i \in 1..Len(getBacklogJobs) |-> getBacklogJobs[i].count])
  /\ DOMAIN backlog_hset = {} => getBacklogCount = 0

C6_Witness ==
  /\ pc[1] = "idle"
  /\ Len(getBacklogJobs) = 3
  /\ getBacklogCount = 26
  /\ Len(calls[1]) = 2
  /\ calls[1][1].op = "fetchJob"

\* ---------------------------- concurrent queueJob and fetchJob calls, looping
\* the jobs the concurrent clients queue: three ids, two counts each
QFJobs == {job \in Jobs : job.count \in {0, 7} /\ getID(job) # <<"B", SEPARATOR, "t2">>}

InitQF == InitSeq

QFQueue(c) == \E job \in QFJobs : queueJob_hset(c, job, 0)

QFPush(c) == queueJob_rpush(c, 0)

QFFetch(c) == fetchJob_lpop(c, 0)

QFRead(c) == fetchJob_hget(c)

QFDelete(c) == fetchJob_hdel(c, 0)

NextQF ==
  \E c \in Clients :
    QFQueue(c) \/ QFPush(c) \/ QFFetch(c) \/ QFRead(c) \/ QFDelete(c)

SpecQF == InitQF /\ [][NextQF]_vars

\* C2: every job id in the backlog list is a field of the backlog hash.
C2_QueuedIdsAreInHash == Range(backlog_queue) \subseteq DOMAIN backlog_hset

\* a fetchJob stands between its pop and its delete while a queueJob of
\* another client stands between its hash write and its push
C2_Witness ==
  /\ backlog_queue # <<>>
  /\ \E c, d \in Clients : pc[c] = "fetch_hdel" /\ pc[d] = "queue_rpush"

\* ------------------ concurrent calls that queue the same jobs again and again
\* As above with one id under all its counts, each client remembering its
\* last finished call.
RequeueJobs == {job \in Jobs : job.index = "A" /\ job.type = "t1"}

InitRequeue == InitSeq

RequeueQueue(c) == \E job \in RequeueJobs : queueJob_hset(c, job, 1)

RequeuePush(c) == queueJob_rpush(c, 1)

RequeueFetch(c) == fetchJob_lpop(c, 1)

RequeueRead(c) == fetchJob_hget(c)

RequeueDelete(c) == fetchJob_hdel(c, 1)

NextRequeue ==
  \E c \in Clients :
    \/ RequeueQueue(c) \/ RequeuePush(c)
    \/ RequeueFetch(c) \/ RequeueRead(c) \/ RequeueDelete(c)

SpecRequeue == InitRequeue /\ [][NextRequeue]_vars

\* C3: the backlog list holds no job id twice, and getBacklogJobs() no two
\* entries with one id.
C3_NoDuplicateId ==
  /\ IsInjective(backlog_queue)
  /\ \A i, j \in 1..Len(getBacklogJobs) :
       getID(getBacklogJobs[i]) = getID(getBacklogJobs[j]) => i = j

\* two clients have queued the same id, the second call was told the field
\* existed, and a third client has fetched meanwhile
C3_Witness ==
  \E c, d, e \in Clients :
    /\ c # d
    /\ calls[c] # <<>> /\ calls[d] # <<>> /\ calls[e] # <<>>
    /\ LastCall(c).op = "queueJob" /\ LastCall(d).op = "queueJob"
    /\ getID(LastCall(c).job) = getID(LastCall(d).job)
    /\ LastCall(c).numberAdded = 1 /\ LastCall(d).numberAdded = 0
    /\ LastCall(e).op = "fetchJob" /\ LastCall(e).job # NoJob
    /\ getID(LastCall(c).job) \in Range(backlog_queue)

\* ------------------------------------------------ filters and comparator
\* A filter function made by getFilterFunction from a pattern tests the name
\* of its target: it is the set of names it accepts.
Accepting(names) == [isFunction |-> TRUE, accepts |-> names]

\* A comparator orders index names by a rank: comparator(a, b) is negative,
\* zero or positive as rank[a] is below, equal to or above rank[b].
Ordering(rank) == [isFunction |-> TRUE, rank |-> rank]

isFunction(f) == f.isFunction

test(filter, target) == target.name \in filter.accepts

compare(comparator, a, b) == comparator.rank[a] - comparator.rank[b]

Ascending == Ordering([n \in IndexNames |-> IF n = "A" THEN 1 ELSE 2])

Descending == Ordering([n \in IndexNames |-> IF n = "A" THEN 2 ELSE 1])

AllEqual == Ordering([n \in IndexNames |-> 0])

\* ---------------------------------------------------------------- source
\* What client.indices.get answers: index descriptors in the order of the
\* response, each with the names of its mappings in their order.
TypeLists ==
  {m \in UNION {[1..n -> TypeNames] : n \in 0..Cardinality(TypeNames)} : IsInjective(m)}

IndexLists ==
  {l \in UNION {[1..n -> IndexNames] : n \in 0..Cardinality(IndexNames)} : IsInjective(l)}

Responses ==
  UNION {{[i \in 1..Len(l) |-> [name |-> l[i], mappings |-> m[i]]] :
            m \in [1..Len(l) -> TypeLists]} : l \in IndexLists}

\* getIndices: the response object as an array, the name put into each element
getIndices(response) == response

\* ------------------------------------------------------- prepareNewJobs
\* a type filter step that keeps an index whose types were all rejected
filterTypes_keepEmpty(selectedIndices) ==
  [k \in 1..Len(selectedIndices) |->
     [index |-> selectedIndices[k].name,
      types |-> IF isFunction(typeFilter)
                THEN SelectSeq(selectedIndices[k].mappings,
                               LAMBDA name : test(typeFilter, [name |-> name]))
                ELSE selectedIndices[k].mappings]]

RECURSIVE filterTypes(_)
filterTypes(selectedIndices) ==
  IF selectedIndices = <<>> THEN <<>>
  ELSE LET index == Head(selectedIndices)
           allTypes == [i \in 1..Len(index.mappings) |-> [name |-> index.mappings[i]]]
           selectedTypes ==
             IF isFunction(typeFilter)
             THEN SelectSeq(allTypes, LAMBDA type : test(typeFilter, type))
             ELSE allTypes
           typeNames == [i \in 1..Len(selectedTypes) |-> selectedTypes[i].name]
       IN (IF Len(typeNames) > 0
           THEN <<[index |-> index.name, types |-> typeNames]>>
           ELSE <<>>) \o filterTypes(Tail(selectedIndices))

filterIndicesAndTypes(allIndices) ==
  LET selectedIndices ==
        IF isFunction(indexFilter)
        THEN SelectSeq(allIndices, LAMBDA index : test(indexFilter, index))
        ELSE allIndices
  IN filterTypes(selectedIndices)

\* Array.prototype.sort with the comparator: some arrangement of the targets
\* in which no element is followed by one the comparator puts before it.
sort(filteredTargets) ==
  {sorted \in [1..Len(filteredTargets) -> Range(filteredTargets)] :
     /\ Range(sorted) = Range(filteredTargets)
     /\ \A i, j \in 1..Len(sorted) :
          i < j => compare(indexComparator, sorted[i].index, sorted[j].index) <= 0}

sortedTargets(filteredTargets) ==
  IF isFunction(indexComparator) THEN sort(filteredTargets) ELSE {filteredTargets}

\* one {index, type} object per type of each target, in order
RECURSIVE expand(_)
expand(sortedTarget) ==
  IF sortedTarget = <<>> THEN <<>>
  ELSE LET target == Head(sortedTarget) IN
         [i \in 1..Len(target.types) |-> [index |-> target.index, type |-> target.types[i]]]
           \o expand(Tail(sortedTarget))

prepareNewJobs(response) ==
  {expand(sorted) : sorted \in sortedTargets(filterIndicesAndTypes(getIndices(response)))}

\* ------------------------------------------------------------ initialize
\* getCompletedJobs followed by JSON.parse of each job: the completed jobs as
\* plain objects
getCompletedJobs ==
  [i \in 1..Len(hfields(completed)) |->
     createFromID(hfields(completed)[i], completed[hfields(completed)[i]])]

\* !_.find(completedJobs, {index: potentialJob.index}) with type compared too
notCompleted_sameType(completedJobs, potentialJob) ==
  ~ \E i \in 1..Len(completedJobs) :
      /\ completedJobs[i].index = potentialJob.index
      /\ completedJobs[i].type = potentialJob.type

\* a filter that drops every job once the ledger has an entry
notCompleted_emptyLedger(completedJobs, potentialJob) == completedJobs = <<>>

\* !_.find(completedJobs, {index: potentialJob.index})
notCompleted(completedJobs, potentialJob) ==
  ~ \E i \in 1..Len(completedJobs) : completedJobs[i].index = potentialJob.index

InitializeOver == init.pc \in {"idle", "resolved", "rejected"}

\* a worker holds the job its last fetchJob returned until its completeJob
Holds(c) ==
  /\ calls[c] # <<>>
  /\ LastCall(c).op = "fetchJob"
  /\ LastCall(c).job # NoJob

\* this initialize call and every one before it started while no client was
\* inside a call or held a job
QuietStart ==
  /\ init.pc = "idle" \/ init.quiet
  /\ \A c \in Clients : pc[c] = "idle" /\ ~ Holds(c)

\* the outcomes of the initialize calls made before the one that starts now,
\* oldest first
CallsBefore ==
  IF init.pc = "idle" THEN <<>> ELSE Append(init.before, init.pc)

\* The stage that follows ReconcileCompleted: mapSeries and each over an
\* empty array resolve at once.
Reconciled(jobs) ==
  [init EXCEPT !.pc = IF jobs = <<>> THEN "resolved" ELSE "count",
               !.jobs = jobs, !.i = 1]

\* initialize(indexNames, ignoreCompleted), first step: clearBacklogJobs,
\* redis.del(BACKLOG_QUEUE_KEY)
initialize_delQueue(ignoreCompleted) ==
  /\ InitializeOver
  /\ backlog_queue' = <<>>
  /\ init' = [pc |-> "del_hset", ignoreCompleted |-> ignoreCompleted,
              queue0 |-> backlog_queue, hset0 |-> backlog_hset,
              completed0 |-> completed, response |-> <<>>,
              potentialJobs |-> <<>>, completedRead |-> EmptyHash,
              jobs |-> <<>>, i |-> 1, queued |-> 0,
              total0 |-> totalCount, before |-> CallsBefore,
              quiet |-> QuietStart]
  /\ UNCHANGED <<backlog_hset, completed, pc, local, calls, seeded, configVars, handleVars, totalCount>>

\* clearBacklogJobs, second step: redis.del(BACKLOG_HSET_KEY)
\* clearBacklogJobs without the redis.del(BACKLOG_HSET_KEY)
initialize_delHset_skip ==
  /\ init.pc = "del_hset"
  /\ init' = [init EXCEPT !.pc = "getIndices"]
  /\ UNCHANGED <<backlog_queue, backlog_hset, completed, pc, local, calls,
                 seeded, configVars, handleVars, totalCount>>

\* clearBacklogJobs, second step: redis.del(BACKLOG_HSET_KEY)
initialize_delHset ==
  /\ init.pc = "del_hset"
  /\ backlog_hset' = EmptyHash
  /\ init' = [init EXCEPT !.pc = "getIndices"]
  /\ UNCHANGED <<backlog_queue, completed, pc, local, calls, seeded, configVars, handleVars, totalCount>>

\* prepareNewJobs: the source answers the discovery query
initialize_prepareNewJobs ==
  /\ init.pc = "getIndices"
  /\ \E response \in Responses :
       \E potentialJobs \in prepareNewJobs(response) :
         init' = [init EXCEPT !.pc = "reconcile", !.response = response,
                              !.potentialJobs = potentialJobs]
  /\ UNCHANGED <<backlog_queue, backlog_hset, completed, pc, local, calls,
                 seeded, configVars, handleVars, totalCount>>

\* prepareNewJobs: the discovery query fails
initialize_getIndicesFails ==
  /\ init.pc = "getIndices"
  /\ init' = [init EXCEPT !.pc = "rejected"]
  /\ UNCHANGED <<backlog_queue, backlog_hset, completed, pc, local, calls,
                 seeded, configVars, handleVars, totalCount>>

\* ignoreCompleted without the redis.del(COMPLETED_KEY)
initialize_clearCompletedJobs_skip ==
  /\ init.pc = "reconcile"
  /\ init.ignoreCompleted
  /\ init' = Reconciled(init.potentialJobs)
  /\ UNCHANGED <<backlog_queue, backlog_hset, completed, pc, local, calls,
                 seeded, configVars, handleVars, totalCount>>

\* ignoreCompleted: clearCompletedJobs, redis.del(COMPLETED_KEY)
initialize_clearCompletedJobs ==
  /\ init.pc = "reconcile"
  /\ init.ignoreCompleted
  /\ completed' = EmptyHash
  /\ init' = Reconciled(init.potentialJobs)
  /\ UNCHANGED <<backlog_queue, backlog_hset, pc, local, calls, seeded, configVars, handleVars, totalCount>>

\* otherwise: getCompletedJobs and the filter on the index of each job
initialize_getCompletedJobs ==
  /\ init.pc = "reconcile"
  /\ ~ init.ignoreCompleted
  /\ LET completedJobs == getCompletedJobs IN
       init' = [Reconciled(SelectSeq(init.potentialJobs,
                   LAMBDA potentialJob : notCompleted(completedJobs, potentialJob)))
                EXCEPT !.completedRead = completed]
  /\ UNCHANGED <<backlog_queue, backlog_hset, completed, pc, local, calls,
                 seeded, configVars, handleVars, totalCount>>

\* count queries sent for all jobs at once, all answering n
Counted_all(n) ==
  [init EXCEPT !.jobs = [k \in 1..Len(init.jobs) |->
                           [index |-> init.jobs[k].index,
                            type  |-> init.jobs[k].type,
                            count |-> parseInt(String(n))]],
               !.i = 1,
               !.pc = "enqueue"]

\* addCountToJobs: source.count answers for the next job
Counted(n) ==
  [init EXCEPT !.jobs[init.i] = [index |-> init.jobs[init.i].index,
                                 type  |-> init.jobs[init.i].type,
                                 count |-> parseInt(String(n))],
               !.i = IF init.i = Len(init.jobs) THEN 1 ELSE init.i + 1,
               !.pc = IF init.i = Len(init.jobs) THEN "enqueue" ELSE "count"]

\* a count step that queues the job as soon as it has its count
initialize_addCount_eager ==
  /\ init.pc = "count"
  /\ \E n \in CountValues :
       /\ init' = [Counted(n) EXCEPT !.queued = init.queued + 1]
       /\ backlog_hset' = hset(backlog_hset, getID(init.jobs[init.i]), n).hash
       /\ backlog_queue' = rpush(backlog_queue, getID(init.jobs[init.i]))
       /\ totalCount' = totalCount + parseInt(String(n))
  /\ UNCHANGED <<completed, pc, local, calls, seeded, configVars, handleVars>>

initialize_addCount ==
  /\ init.pc = "count"
  /\ \E n \in CountValues :
       /\ init' = Counted(n)
       /\ totalCount' = totalCount + parseInt(String(n))
  /\ UNCHANGED <<backlog_queue, backlog_hset, completed, pc, local, calls,
                 seeded, configVars, handleVars>>

\* addCountToJobs: a count query fails
initialize_countFails ==
  /\ init.pc = "count"
  /\ init' = [init EXCEPT !.pc = "rejected"]
  /\ UNCHANGED <<backlog_queue, backlog_hset, completed, pc, local, calls,
                 seeded, configVars, handleVars, totalCount>>

\* The stage after the queueJob of job i has finished
Queued ==
  [init EXCEPT !.i = init.i + 1,
               !.pc = IF init.i = Len(init.jobs) THEN "resolved" ELSE "enqueue"]

\* Promise.each(jobs, queueJob): the hset of queueJob for the next job
initialize_queueJob_hset ==
  /\ init.pc = "enqueue"
  /\ LET job == Job(init.jobs[init.i])
         r   == hset(backlog_hset, getID(job), job.count)
     IN
       /\ backlog_hset' = r.hash
       /\ init' = IF r.reply = 0
                  THEN [Queued EXCEPT !.queued = init.queued + 1]
                  ELSE [init EXCEPT !.pc = "rpush", !.queued = init.queued + 1]
  /\ UNCHANGED <<backlog_queue, completed, pc, local, calls, seeded, configVars, handleVars, totalCount>>

\* Promise.each(jobs, queueJob): the rpush of queueJob
initialize_queueJob_rpush ==
  /\ init.pc = "rpush"
  /\ backlog_queue' = rpush(backlog_queue, getID(Job(init.jobs[init.i])))
  /\ init' = Queued
  /\ UNCHANGED <<backlog_hset, completed, pc, local, calls, seeded, configVars, handleVars, totalCount>>

\* --------------------------------------- initialize calls, one after the other
\* The configuration, the completed ledger and the backlog an initialize call
\* may find.
Configurations ==
  [indexFilter : {NoFunction, Accepting({"B"})},
   typeFilter : {NoFunction, Accepting({"t1"})},
   indexComparator : {NoFunction, Ascending, Descending, AllEqual}]

ID(index, type) == getID([index |-> index, type |-> type])

Ledgers ==
  {EmptyHash,
   (ID("A", "t1") :> String(7)),
   (ID("A", "t2") :> String(12)),
   (ID("B", "t1") :> String(0)),
   (ID("A", "t1") :> String(7)) @@ (ID("B", "t2") :> String(7))}

Backlogs ==
  {[queue |-> <<>>, hset |-> EmptyHash],
   [queue |-> <<ID("B", "t2"), ID("A", "t1")>>,
    hset |-> (ID("B", "t2") :> String(12)) @@ (ID("A", "t1") :> String(0))],
   [queue |-> <<>>, hset |-> (ID("A", "t2") :> String(7))]}

InitInitialize ==
  /\ \E backlog \in Backlogs :
       /\ backlog_queue = backlog.queue
       /\ backlog_hset = backlog.hset
  /\ completed \in Ledgers
  /\ \E configuration \in Configurations :
       /\ indexFilter = configuration.indexFilter
       /\ typeFilter = configuration.typeFilter
       /\ indexComparator = configuration.indexComparator
  /\ pc = [c \in Clients |-> "idle"]
  /\ local = [c \in Clients |-> NoLocal]
  /\ calls = [c \in Clients |-> <<>>]
  /\ seeded = <<>>
  /\ init = NoInitialize
  /\ Constructed

\* one initialize call in each run
InitializeCall ==
  /\ init.pc = "idle"
  /\ \E ignoreCompleted \in BOOLEAN : initialize_delQueue(ignoreCompleted)

NextInitialize ==
  \/ InitializeCall
  \/ initialize_delHset
  \/ initialize_prepareNewJobs
  \/ initialize_getIndicesFails
  \/ initialize_clearCompletedJobs
  \/ initialize_getCompletedJobs
  \/ initialize_addCount
  \/ initialize_countFails
  \/ initialize_queueJob_hset
  \/ initialize_queueJob_rpush

SpecInitialize == InitInitialize /\ [][NextInitialize]_vars

\* the index names of the entries of a ledger
LedgerIndices(ledger) == {id[1] : id \in DOMAIN ledger}

Enqueued == Range(backlog_queue) \cup DOMAIN backlog_hset

\* C7: initialize(names, false) puts no job into the backlog whose index is
\* the index of an entry of the completed ledger as the call read it,
\* whatever the type of that entry.
C7_CompletedIndexNotEnqueued ==
  (init.pc # "idle" /\ ~ init.ignoreCompleted) =>
    \A id \in Enqueued : id[1] \notin LedgerIndices(init.completedRead)

\* the ledger held A:t2 only, the call prepared A:t1 and jobs of B, and the
\* jobs of B are queued
C7_Witness ==
  /\ init.pc = "resolved"
  /\ ~ init.ignoreCompleted
  /\ DOMAIN init.completedRead = {ID("A", "t2")}
  /\ \E k \in 1..Len(init.potentialJobs) : getID(init.potentialJobs[k]) = ID("A", "t1")
  /\ backlog_queue # <<>>

\* the jobs of a discovery response that the index filter and the type filter
\* let through
Survivors(response) ==
  {id \in JobIDs :
     /\ \E k \in 1..Len(response) :
          response[k].name = id[1] /\ id[3] \in Range(response[k].mappings)
     /\ isFunction(indexFilter) => id[1] \in indexFilter.accepts
     /\ isFunction(typeFilter) => id[3] \in typeFilter.accepts}

\* C8: initialize(names, true) ends with the completed ledger empty and with
\* every discovered and filtered job in the backlog list and hash, once.
C8_IgnoreCompletedEnqueuesAll ==
  (init.pc = "resolved" /\ init.ignoreCompleted) =>
    /\ DOMAIN completed = {}
    /\ Range(backlog_queue) = Survivors(init.response)
    /\ DOMAIN backlog_hset = Survivors(init.response)
    /\ IsInjective(backlog_queue)

\* the ledger held a job before the call, the backlog was not empty, and the
\* job of the ledger is queued again
C8_Witness ==
  /\ init.pc = "resolved"
  /\ init.ignoreCompleted
  /\ init.queue0 # <<>>
  /\ \E id \in DOMAIN init.completed0 : id \in Range(backlog_queue)

\* C10: when the discovery query or a count query fails, the initialize call
\* is rejected without having called queueJob: the backlog is empty.
C10_FailedQueryEnqueuesNothing ==
  init.pc = "rejected" =>
    /\ init.queued = 0
    /\ backlog_queue = <<>>
    /\ DOMAIN backlog_hset = {}

\* the second count query failed after the first job got its count
C10_Witness ==
  /\ init.pc = "rejected"
  /\ Len(init.jobs) >= 2
  /\ init.i = 2
  /\ init.jobs[1].count = 7

\* ------------------------------ one initialize call, then fetchJob after fetchJob
MaxJobs == Cardinality(JobIDs)

InitDrain ==
  /\ backlog_queue = <<>>
  /\ backlog_hset = EmptyHash
  /\ completed \in {EmptyHash, (ID("B", "t2") :> String(7))}
  /\ \E configuration \in Configurations :
       /\ indexFilter = configuration.indexFilter
       /\ typeFilter = configuration.typeFilter
       /\ indexComparator = configuration.indexComparator
  /\ pc = [c \in Clients |-> "idle"]
  /\ local = [c \in Clients |-> NoLocal]
  /\ calls = [c \in Clients |-> <<>>]
  /\ seeded = <<>>
  /\ init = NoInitialize
  /\ Constructed

DrainFetch ==
  /\ init.pc = "resolved"
  /\ Len(calls[1]) <= MaxJobs
  /\ fetchJob_lpop(1, MaxJobs + 1)

DrainRead == fetchJob_hget(1)

DrainDelete == fetchJob_hdel(1, MaxJobs + 1)

NextDrain == NextInitialize \/ DrainFetch \/ DrainRead \/ DrainDelete

SpecDrain == InitDrain /\ [][NextDrain]_vars

\* the jobs the fetchJob calls of client 1 have returned, in order
Fetched ==
  LET returned == SelectSeq(calls[1], LAMBDA call : call.job # NoJob)
  IN [k \in 1..Len(returned) |-> returned[k].job]

IdsOf(jobs) == [k \in 1..Len(jobs) |-> getID(jobs[k])]

IndexPosition(response, name) ==
  CHOOSE k \in 1..Len(response) : response[k].name = name

TypePosition(response, id) ==
  CHOOSE m \in 1..Len(response[IndexPosition(response, id[1])].mappings) :
    response[IndexPosition(response, id[1])].mappings[m] = id[3]

\* the order the queue is to have: comparator order between indices
\* (discovery order without comparator), discovery order of the types within
\* an index
InOrder(response, ids) ==
  \A a, b \in 1..Len(ids) :
    a < b =>
      IF ids[a][1] = ids[b][1]
      THEN TypePosition(response, ids[a]) < TypePosition(response, ids[b])
      ELSE IF isFunction(indexComparator)
           THEN compare(indexComparator, ids[a][1], ids[b][1]) <= 0
           ELSE IndexPosition(response, ids[a][1]) < IndexPosition(response, ids[b][1])

\* the jobs that survive the filters and the completed ledger
Surviving ==
  {id \in Survivors(init.response) :
     init.ignoreCompleted \/ id[1] \notin LedgerIndices(init.completedRead)}

\* C9: when initialize has resolved, the ids fetched so far followed by the
\* backlog list are the surviving jobs, each once, in comparator order between
\* indices and type order within an index; the hash maps each queued id to
\* its enriched count and each fetched job carries its enriched count; for
\* A{t1,t2}, B{t1} under a descending comparator the order is B:t1, A:t1, A:t2
\* and getBacklogCount() is the sum of the counts.
C9_QueueIsOrderedSurvivors ==
  (init.pc = "resolved" /\ pc[1] = "idle") =>
    LET all == IdsOf(Fetched) \o backlog_queue IN
      /\ IsInjective(all)
      /\ Range(all) = Surviving
      /\ InOrder(init.response, all)
      /\ all = IdsOf(init.jobs)
      /\ \A k \in 1..Len(Fetched) : Fetched[k].count = init.jobs[k].count
      /\ DOMAIN backlog_hset = Range(backlog_queue)
      /\ \A k \in 1..Len(init.jobs) :
           k > Len(Fetched) =>
             backlog_hset[getID(init.jobs[k])] = String(init.jobs[k].count)
      /\ (/\ init.response = <<[name |-> "A", mappings |-> <<"t1", "t2">>],
                               [name |-> "B", mappings |-> <<"t1">>]>>
          /\ indexComparator = Descending
          /\ indexFilter = NoFunction /\ typeFilter = NoFunction
          /\ init.ignoreCompleted
          /\ Fetched = <<>>) =>
           /\ backlog_queue = <<ID("B", "t1"), ID("A", "t1"), ID("A", "t2")>>
           /\ getBacklogCount =
                init.jobs[1].count + init.jobs[2].count + init.jobs[3].count

\* the example run, two of its three jobs fetched
C9_Witness ==
  /\ init.pc = "resolved" /\ pc[1] = "idle"
  /\ init.response = <<[name |-> "A", mappings |-> <<"t1", "t2">>],
                       [name |-> "B", mappings |-> <<"t1">>]>>
  /\ indexComparator = Descending
  /\ IdsOf(Fetched) = <<ID("B", "t1"), ID("A", "t1")>>
  /\ backlog_queue = <<ID("A", "t2")>>
  /\ Fetched[1].count = 12 /\ Fetched[2].count = 0

\* ------------------------------------------- initialize after a failed call
\* A store call of initialize fails: the second delete of clearBacklogJobs,
\* the delete or the read of the ledger, the hset or the rpush of a queueJob.
\* The promise chain rejects and what the earlier steps wrote stays.
initialize_storeFails ==
  /\ init.pc \in {"del_hset", "reconcile", "enqueue", "rpush"}
  /\ init' = [init EXCEPT !.pc = "rejected"]
  /\ UNCHANGED <<backlog_queue, backlog_hset, completed, pc, local, calls,
                 seeded, configVars, handleVars, totalCount>>

\* how many initialize calls one run makes
MaxCalls == 2

\* the source answers of the runs with several initialize calls
RerunResponses ==
  {<<>>,
   <<[name |-> "A", mappings |-> <<"t1">>]>>,
   <<[name |-> "A", mappings |-> <<"t1", "t2">>]>>,
   <<[name |-> "B", mappings |-> <<"t2">>],
     [name |-> "A", mappings |-> <<"t1">>]>>}

InitRerun ==
  /\ backlog_queue = <<>>
  /\ backlog_hset = EmptyHash
  /\ completed \in {EmptyHash, (ID("A", "t2") :> String(12))}
  /\ indexFilter = NoFunction
  /\ typeFilter = NoFunction
  /\ indexComparator = NoFunction
  /\ pc = [c \in Clients |-> "idle"]
  /\ local = [c \in Clients |-> NoLocal]
  /\ calls = [c \in Clients |-> <<>>]
  /\ seeded = <<>>
  /\ init = NoInitialize
  /\ Constructed

RerunCall ==
  /\ Len(CallsBefore) < MaxCalls
  /\ \E ignoreCompleted \in BOOLEAN : initialize_delQueue(ignoreCompleted)

RerunPrepare ==
  /\ initialize_prepareNewJobs
  /\ init'.response \in RerunResponses

NextRerun ==
  \/ RerunCall
  \/ initialize_delHset
  \/ RerunPrepare
  \/ initialize_getIndicesFails
  \/ initialize_clearCompletedJobs
  \/ initialize_getCompletedJobs
  \/ initialize_addCount
  \/ initialize_countFails
  \/ initialize_queueJob_hset
  \/ initialize_queueJob_rpush
  \/ initialize_storeFails

SpecRerun == InitRerun /\ [][NextRerun]_vars

\* C11: when an initialize call resolves after an earlier call was rejected,
\* the backlog list is the ids of the jobs this call prepared, in order and
\* each once, and the hash has exactly these ids, each with the count this
\* call found: nothing of the failed call is left.
C11_RerunRecovers ==
  (init.pc = "resolved" /\ "rejected" \in Range(init.before)) =>
    /\ backlog_queue = IdsOf(init.jobs)
    /\ IsInjective(backlog_queue)
    /\ DOMAIN backlog_hset = Range(backlog_queue)
    /\ \A k \in 1..Len(init.jobs) :
         backlog_hset[getID(init.jobs[k])] = String(init.jobs[k].count)

\* the earlier call failed between the hset and the rpush of its second job
\* and left A:t1 in the list and A:t1, A:t2 in the hash, both with count 7;
\* the later call found B:t2 and A:t1 with count 12
C11_Witness ==
  /\ init.pc = "resolved"
  /\ init.before = <<"rejected">>
  /\ init.queue0 = <<ID("A", "t1")>>
  /\ init.hset0 = (ID("A", "t1") :> String(7)) @@ (ID("A", "t2") :> String(7))
  /\ backlog_queue = <<ID("B", "t2"), ID("A", "t1")>>
  /\ backlog_hset[ID("A", "t1")] = String(12)


\* ------------------------------------------- workers and initialize calls
\* The last client is the master, which makes the initialize calls one after
\* the other; every other client is a worker that loops fetchJob and then
\* completeJob on the job fetched, while the initialize calls run.  The
\* backlog may hold a job of an earlier run.
Workers == Clients \ {NumClients}

WorkersResponses ==
  {<<[name |-> "A", mappings |-> <<"t1">>]>>,
   <<[name |-> "A", mappings |-> <<"t1", "t2">>]>>}

InitWorkers ==
  /\ \E backlog \in {[queue |-> <<>>, hset |-> EmptyHash],
                     [queue |-> <<ID("A", "t1")>>,
                      hset |-> (ID("A", "t1") :> String(7))]} :
       /\ backlog_queue = backlog.queue
       /\ backlog_hset = backlog.hset
  /\ completed = EmptyHash
  /\ indexFilter = NoFunction
  /\ typeFilter = NoFunction
  /\ indexComparator = NoFunction
  /\ pc = [c \in Clients |-> "idle"]
  /\ local = [c \in Clients |-> NoLocal]
  /\ calls = [c \in Clients |-> <<>>]
  /\ seeded = <<>>
  /\ init = NoInitialize
  /\ Constructed

WorkersPrepare ==
  /\ initialize_prepareNewJobs
  /\ init'.response \in WorkersResponses

WorkersCount ==
  /\ initialize_addCount
  /\ init'.jobs[init.i].count = 7

WorkerFetch(c) == ~ Holds(c) /\ fetchJob_lpop(c, 1)

WorkerRead(c) == fetchJob_hget(c)

WorkerDelete(c) == fetchJob_hdel(c, 1)

WorkerComplete(c) == Holds(c) /\ completeJob(c, LastCall(c).job, 1)

NextWorkers ==
  \/ RerunCall
  \/ initialize_delHset
  \/ WorkersPrepare
  \/ initialize_getIndicesFails
  \/ initialize_clearCompletedJobs
  \/ initialize_getCompletedJobs
  \/ WorkersCount
  \/ initialize_countFails
  \/ initialize_queueJob_hset
  \/ initialize_queueJob_rpush
  \/ initialize_storeFails
  \/ \E c \in Workers : WorkerFetch(c)
  \/ \E c \in Workers : WorkerRead(c)
  \/ \E c \in Workers : WorkerDelete(c)
  \/ \E c \in Workers : WorkerComplete(c)

SpecWorkers == InitWorkers /\ [][NextWorkers]_vars

\* the workers that hold the job of this id
Holders(id) == {c \in Workers : Holds(c) /\ getID(LastCall(c).job) = id}

\* in how many places the id is: the backlog, each worker that holds it, the
\* completed ledger
Places(id) ==
  (IF id \in Enqueued THEN 1 ELSE 0)
  + Cardinality(Holders(id))
  + (IF id \in DOMAIN completed THEN 1 ELSE 0)

\* C12 as claimed: in every state of the workers and the initialize calls a
\* job id is in at most one of the backlog, a worker's hands and the completed
\* ledger, and in the hands of at most one worker.
C12_OneOwner == \A id \in JobIDs : Places(id) <= 1

\* C12: as long as every initialize call has started while no worker was
\* inside a call or held a job, a job id is in at most one of the backlog, a
\* worker's hands and the completed ledger, and in the hands of at most one
\* worker.
C12_OneOwnerAfterQuietStart ==
  (init.pc = "idle" \/ init.quiet) => \A id \in JobIDs : Places(id) <= 1

\* the second initialize call started quiet after a worker had completed A:t1
\* and cleared the ledger; now one worker holds A:t1 again, another holds
\* A:t2 and has not completed it
C12_Witness ==
  /\ init.pc = "resolved"
  /\ init.before = <<"resolved">>
  /\ init.quiet
  /\ ID("A", "t1") \in DOMAIN init.completed0
  /\ Cardinality(Holders(ID("A", "t1"))) = 1
  /\ Cardinality(Holders(ID("A", "t2"))) = 1


\* ------------------------------------------- setting filters and comparator
\* Arguments of setIndexFilter and setTypeFilter: a regular expression, a
\* function of `length` parameters, a string without extension (a pattern), a
\* string with an extension (a path; a .js path is required as a module and
\* `exports` is what the module returns, none when it cannot be found), or
\* something else.  `accepts` is the set of names the expression or function
\* answers true for.
FunctionArguments ==
  [type : {"function"}, length : {0, 1}, accepts : {{"B"}, {"t1"}}]

FilterArguments ==
  [type : {"RegExp"}, accepts : {{"B"}, {"t1"}, {"A", "B", "t2"}}]
  \cup FunctionArguments
  \cup [type : {"string"}, extension : {""}, accepts : {{"A"}, {"t2"}}]
  \cup [type : {"string"}, extension : {".json"}]
  \cup [type : {"string"}, extension : {".js"},
        exports : FunctionArguments \cup {[type |-> "none"], [type |-> "object"]}]
  \cup {[type |-> "number"]}

\* a call that throws assigns nothing
Thrown == [threw |-> TRUE]

Result(value) == [threw |-> FALSE, value |-> value]

getFilterFunction(filter) ==
  LET filterFunction ==
        IF filter.type = "string"
        THEN IF filter.extension # ""
             THEN IF filter.extension # ".js" THEN Thrown
                  ELSE IF filter.exports.type = "none" THEN Thrown
                  ELSE IF filter.exports.type # "function" THEN Thrown
                  ELSE Result(filter.exports)
             ELSE Result([type |-> "function", length |-> 1,
                            accepts |-> filter.accepts])
        ELSE IF filter.type = "RegExp"
        THEN Result([type |-> "function", length |-> 1,
                       accepts |-> filter.accepts])
        ELSE IF filter.type = "function" THEN Result(filter)
        ELSE Thrown
  IN IF filterFunction.threw THEN Thrown
     ELSE IF filterFunction.value.length < 1 THEN Thrown
     ELSE Result(Accepting(filterFunction.value.accepts))

\* Arguments of setIndexComparator: a function of `length` parameters that
\* orders the index names by `rank`, a string (required as a module), or
\* something else.
ComparatorFunctions ==
  [type : {"function"}, length : {1, 2, 3},
   rank : {Ascending.rank, Descending.rank}]

ComparatorArguments ==
  ComparatorFunctions
  \cup [type : {"string"},
        exports : ComparatorFunctions \cup {[type |-> "none"], [type |-> "object"]}]
  \cup {[type |-> "number"]}

\* what a finished setter call leaves in calls[1]: the Manager object it was
\* called on and whether it threw
SetterCall(op, self, threw) ==
  Finished(1, [op |-> op, self |-> self, threw |-> threw], 1)

setIndexFilter(self, filter) ==
  LET r == getFilterFunction(filter) IN
    /\ self \in DOMAIN instances
    /\ indexFilter' = IF r.threw THEN indexFilter ELSE r.value
    /\ calls' = [calls EXCEPT ![1] = SetterCall("setIndexFilter", self, r.threw)]
    /\ UNCHANGED <<backlog_queue, backlog_hset, completed, pc, local, seeded,
                   indexComparator, typeFilter, init, handleVars, totalCount>>

setTypeFilter(self, filter) ==
  LET r == getFilterFunction(filter) IN
    /\ self \in DOMAIN instances
    /\ typeFilter' = IF r.threw THEN typeFilter ELSE r.value
    /\ calls' = [calls EXCEPT ![1] = SetterCall("setTypeFilter", self, r.threw)]
    /\ UNCHANGED <<backlog_queue, backlog_hset, completed, pc, local, seeded,
                   indexFilter, indexComparator, init, handleVars, totalCount>>

\* a setIndexComparator that assigns before it validates
setIndexComparator_assignFirst(self, comparator) ==
  LET required == IF comparator.type = "string" THEN comparator.exports
                  ELSE comparator
      threw == required.type # "function" \/ required.length # 2
  IN
    /\ self \in DOMAIN instances
    /\ indexComparator' = IF required.type = "function"
                          THEN Ordering(required.rank) ELSE NoFunction
    /\ calls' = [calls EXCEPT ![1] = SetterCall("setIndexComparator", self, threw)]
    /\ UNCHANGED <<backlog_queue, backlog_hset, completed, pc, local, seeded,
                   indexFilter, typeFilter, init, handleVars, totalCount>>

\* require of a string throws when the module cannot be found; then the
\* argument must be a function of two parameters
setIndexComparator(self, comparator) ==
  LET required == IF comparator.type = "string" THEN comparator.exports
                  ELSE comparator
      threw == required.type # "function" \/ required.length # 2
  IN
    /\ self \in DOMAIN instances
    /\ indexComparator' = IF threw THEN indexComparator
                          ELSE Ordering(required.rank)
    /\ calls' = [calls EXCEPT ![1] = SetterCall("setIndexComparator", self, threw)]
    /\ UNCHANGED <<backlog_queue, backlog_hset, completed, pc, local, seeded,
                   indexFilter, typeFilter, init, handleVars, totalCount>>

resetFiltersAndComparators(self) ==
  /\ self \in DOMAIN instances
  /\ indexFilter' = NoFunction
  /\ indexComparator' = NoFunction
  /\ typeFilter' = NoFunction
  /\ calls' = [calls EXCEPT ![1] =
                 SetterCall("_resetFiltersAndComparators", self, FALSE)]
  /\ UNCHANGED <<backlog_queue, backlog_hset, completed, pc, local, seeded,
                 init, handleVars, totalCount>>

NextSetters ==
  \/ \E filter \in FilterArguments : setIndexFilter("manager", filter)
  \/ \E filter \in FilterArguments : setTypeFilter("manager", filter)
  \/ \E comparator \in ComparatorArguments :
       setIndexComparator("manager", comparator)
  \/ resetFiltersAndComparators("manager")

SpecSetters == InitRerun /\ [][NextSetters]_vars

\* the source answers with both indices
BothIndices == {response \in Responses : Len(response) = 2}

\* C13: a setIndexFilter, setTypeFilter or setIndexComparator call that
\* throws leaves the index filter, the type filter and the comparator as they
\* were, and prepareNewJobs gives for every source answer the same jobs in
\* the same order as before the call.
C13_FailedSetterKeepsConfiguration ==
  [][(calls'[1] # <<>> /\ calls'[1][1].threw) =>
       /\ indexFilter' = indexFilter
       /\ typeFilter' = typeFilter
       /\ indexComparator' = indexComparator
       /\ \A response \in BothIndices :
            prepareNewJobs(response)' = prepareNewJobs(response)]_vars

\* filters and a comparator were set, and the last call, a setIndexComparator,
\* threw
C13_Witness ==
  /\ calls[1] # <<>>
  /\ LastCall(1).op = "setIndexComparator"
  /\ LastCall(1).threw
  /\ indexFilter = Accepting({"B"})
  /\ typeFilter = Accepting({"t1"})
  /\ indexComparator = Descending


\* ------------------------------------------------- filterIndicesAndTypes
\* the filter is unset or answers true for the name
Accepts(filter, name) == isFunction(filter) => name \in filter.accepts

\* C14: of the indices the source answered with, filterIndicesAndTypes keeps
\* those the index filter accepts (all without index filter) that have a type
\* the type filter accepts (all without type filter), each with exactly its
\* accepted types, indices and types in the order of the answer; and no
\* prepared job has a rejected index or a rejected type.
C14_FilterKeepsAccepted ==
  init.pc \in {"reconcile", "count", "enqueue", "rpush", "resolved"} =>
    LET allIndices == getIndices(init.response)
        kept == filterIndicesAndTypes(allIndices)
        AcceptedTypes(k) ==
          SelectSeq(allIndices[k].mappings, LAMBDA name : Accepts(typeFilter, name))
        Position(j) ==
          CHOOSE k \in 1..Len(allIndices) : allIndices[k].name = kept[j].index
    IN
      /\ \A k \in 1..Len(allIndices) :
           (\E j \in 1..Len(kept) : kept[j].index = allIndices[k].name)
             <=> (Accepts(indexFilter, allIndices[k].name) /\ AcceptedTypes(k) # <<>>)
      /\ \A j \in 1..Len(kept) :
           /\ \E k \in 1..Len(allIndices) : allIndices[k].name = kept[j].index
           /\ kept[j].types = AcceptedTypes(Position(j))
      /\ \A i, j \in 1..Len(kept) : i < j => Position(i) < Position(j)
      /\ \A n \in 1..Len(init.potentialJobs) :
           /\ Accepts(indexFilter, init.potentialJobs[n].index)
           /\ Accepts(typeFilter, init.potentialJobs[n].type)

\* both filters are set; of A{t1} and B{t2,t1} only B with t1 is kept
C14_Witness ==
  /\ init.pc = "reconcile"
  /\ indexFilter = Accepting({"B"})
  /\ typeFilter = Accepting({"t1"})
  /\ init.response = <<[name |-> "A", mappings |-> <<"t1">>],
                       [name |-> "B", mappings |-> <<"t2", "t1">>]>>
  /\ filterIndicesAndTypes(getIndices(init.response))
       = <<[index |-> "B", types |-> <<"t1">>]>>
  /\ init.potentialJobs = <<[index |-> "B", type |-> "t1"]>>


\* ------------------------------------------------- the stages of initialize
\* ClearBacklog 1, PrepareJobs 2, ReconcileCompleted 3, Enrich 4, Enqueue 5
Stage(p) ==
  CASE p = "del_hset" -> 1
    [] p = "getIndices" -> 2
    [] p = "reconcile" -> 3
    [] p = "count" -> 4
    [] p \in {"enqueue", "rpush"} -> 5
    [] OTHER -> 6

HasCount(job) == "count" \in DOMAIN job

\* C15: a step of a running initialize call never goes back to an earlier
\* stage; the backlog list is emptied when the call starts and the hash in
\* stage ClearBacklog, so both are empty when discovery starts, and the
\* backlog changes in no stage between ClearBacklog and Enqueue; the ledger
\* is cleared or read only in stage ReconcileCompleted, after the jobs were
\* prepared; a count step gives a count to the first job without one and to
\* no other; Enqueue starts when every job has its count, and each of its
\* steps writes the id of the first job not yet queued.
C15_StagesInOrder ==
  [][/\ (init.pc \in {"idle", "resolved", "rejected"} /\ init'.pc # init.pc) =>
          /\ init'.pc = "del_hset"
          /\ backlog_queue' = <<>>
     /\ (init.pc \notin {"idle", "resolved", "rejected"}) =>
          /\ Stage(init'.pc) >= Stage(init.pc)
          /\ init.pc = "del_hset" =>
               /\ backlog_queue = <<>> /\ backlog_queue' = <<>>
               /\ init'.pc = "getIndices" => backlog_hset' = EmptyHash
          /\ init.pc = "getIndices" =>
               /\ BacklogEmpty
               /\ init.potentialJobs = <<>> /\ init.completedRead = EmptyHash
               /\ completed = init.completed0
          /\ Stage(init.pc) \in {2, 3, 4} =>
               /\ UNCHANGED <<backlog_queue, backlog_hset>>
               /\ BacklogEmpty
          /\ init.pc # "reconcile" =>
               /\ completed' = completed
               /\ init'.completedRead = init.completedRead
          /\ Stage(init.pc) >= 3 => init'.potentialJobs = init.potentialJobs
          /\ (init.pc = "count" /\ init'.pc # "rejected") =>
               /\ \A k \in 1..Len(init.jobs) : HasCount(init.jobs[k]) <=> k < init.i
               /\ \A k \in 1..Len(init.jobs) : HasCount(init'.jobs[k]) <=> k <= init.i
               /\ IdsOf(init'.jobs) = IdsOf(init.jobs)
               /\ init'.pc = "enqueue" <=> init.i = Len(init.jobs)
          /\ Stage(init.pc) = 5 =>
               /\ \A k \in 1..Len(init.jobs) : HasCount(init.jobs[k])
               /\ init'.jobs = init.jobs
               /\ backlog_queue = [k \in 1..(init.i - 1) |-> getID(init.jobs[k])]
               /\ init.pc = "enqueue" =>
                    /\ DOMAIN backlog_hset = Range(backlog_queue)
                    /\ init'.pc # "rejected" =>
                         backlog_hset' = hset(backlog_hset, getID(init.jobs[init.i]),
                                              init.jobs[init.i].count).hash
               /\ (init.pc = "rpush" /\ init'.pc # "rejected") =>
                    /\ backlog_queue' = Append(backlog_queue, getID(init.jobs[init.i]))
                    /\ init'.i = init.i + 1]_vars

\* a call that read a ledger with an entry and kept two jobs has counted
\* both and queued the first; the second is in the hash, not yet in the list
C15_Witness ==
  /\ init.pc = "rpush"
  /\ Len(init.jobs) = 2
  /\ init.i = 2
  /\ Len(backlog_queue) = 1
  /\ Cardinality(DOMAIN backlog_hset) = 2
  /\ ~ init.ignoreCompleted
  /\ init.completedRead # EmptyHash


\* ----------------------------------- one process, one call after the other
\* Client 1 makes its calls one at a time and between the initialize calls:
\* it fetches a job and completes it, puts it back or leaves it; it completes
\* the job A:t2 with count 7 that it was given elsewhere; it clears the backlog
\* or the ledger.  The source answers every query, with a count above zero.
ResumeCall == pc[1] = "idle" /\ RerunCall

ResumeFetch == InitializeOver /\ ~ Holds(1) /\ fetchJob_lpop(1, 1)

ResumeRead == fetchJob_hget(1)

ResumeDelete == fetchJob_hdel(1, 1)

ResumeComplete ==
  /\ InitializeOver
  /\ \E job \in {[index |-> "A", type |-> "t2", count |-> 7]}
                  \cup {LastCall(1).job : h \in {c \in {1} : Holds(c)}} :
       completeJob(1, job, 1)

ResumeRequeue ==
  InitializeOver /\ Holds(1) /\ queueJob_hset(1, LastCall(1).job, 1)

ResumePush == queueJob_rpush(1, 1)

\* clearBacklogJobs as a call of its own: both deletes
clearBacklogJobs_delQueue(c) ==
  /\ pc[c] = "idle"
  /\ backlog_queue' = <<>>
  /\ pc' = [pc EXCEPT ![c] = "clear_hset"]
  /\ UNCHANGED <<backlog_hset, completed, local, calls, seeded, configVars,
                 handleVars, totalCount, init>>

clearBacklogJobs_delHset(c, keep) ==
  /\ pc[c] = "clear_hset"
  /\ backlog_hset' = EmptyHash
  /\ pc' = [pc EXCEPT ![c] = "idle"]
  /\ calls' = [calls EXCEPT ![c] =
                 Finished(c, [op |-> "clearBacklogJobs"], keep)]
  /\ UNCHANGED <<backlog_queue, completed, local, seeded, configVars,
                 handleVars, totalCount, init>>

\* clearCompletedJobs: redis.del(COMPLETED_KEY)
clearCompletedJobs(c, keep) ==
  /\ pc[c] = "idle"
  /\ completed' = EmptyHash
  /\ calls' = [calls EXCEPT ![c] =
                 Finished(c, [op |-> "clearCompletedJobs"], keep)]
  /\ UNCHANGED <<backlog_queue, backlog_hset, pc, local, seeded, configVars,
                 handleVars, totalCount, init>>

ResumeCount == initialize_addCount /\ init'.jobs[init.i].count # 0

NextResume ==
  \/ ResumeCall
  \/ initialize_delHset
  \/ RerunPrepare
  \/ initialize_clearCompletedJobs
  \/ initialize_getCompletedJobs
  \/ ResumeCount
  \/ initialize_queueJob_hset
  \/ initialize_queueJob_rpush
  \/ ResumeFetch
  \/ ResumeRead
  \/ ResumeDelete
  \/ ResumeComplete
  \/ ResumeRequeue
  \/ ResumePush
  \/ (InitializeOver /\ clearBacklogJobs_delQueue(1))
  \/ clearBacklogJobs_delHset(1, 1)
  \/ (InitializeOver /\ clearCompletedJobs(1, 1))

SpecResume == InitRerun /\ [][NextResume]_vars

\* the prepared jobs whose index has no entry in the ledger this call read
Kept ==
  SelectSeq(init.potentialJobs,
            LAMBDA job : job.index \notin LedgerIndices(init.completedRead))

\* C16: when an initialize(names, false) call resolves, the backlog list is
\* the ids of the prepared jobs whose index has no entry in the completed
\* ledger, in order, and the hash has these ids: a prepared job is dropped
\* only for a ledger entry of its index, and a job that was fetched and
\* neither completed nor put back is in the backlog again.
C16_RerunEnqueuesUncompleted ==
  [][(init.pc # "resolved" /\ init'.pc = "resolved" /\ ~ init'.ignoreCompleted) =>
       /\ backlog_queue' = IdsOf(Kept')
       /\ DOMAIN backlog_hset' = Range(backlog_queue')
       /\ \A c \in Clients :
            (Holds(c) /\ getID(LastCall(c).job) \in Range(IdsOf(Kept')))
              => getID(LastCall(c).job) \in Range(backlog_queue')]_vars

\* the first call queued A:t1 and A:t2; client 1 fetched A:t1 and did nothing
\* with it; the second call, without ignoreCompleted, has put A:t1 back
C16_Witness ==
  /\ init.pc = "resolved"
  /\ ~ init.ignoreCompleted
  /\ init.before = <<"resolved">>
  /\ init.queue0 = <<ID("A", "t2")>>
  /\ Holds(1)
  /\ getID(LastCall(1).job) = ID("A", "t1")
  /\ backlog_queue = <<ID("A", "t1"), ID("A", "t2")>>
  /\ completed = EmptyHash


\* C17: a step that changes the completed ledger is either a completeJob,
\* which sets the entry of the job's id to the job's count, leaves every
\* other entry and leaves the backlog, or the delete of the ledger by
\* clearCompletedJobs or by initialize(names, true); fetchJob, queueJob,
\* clearBacklogJobs and initialize(names, false) do not change the ledger.
C17_LedgerAdditive ==
  [][\/ completed' = completed
     \/ /\ calls'[1] # <<>>
        /\ calls'[1][1].op = "completeJob"
        /\ LET job == calls'[1][1].job IN
             completed' = [id \in DOMAIN completed \cup {getID(job)} |->
                             IF id = getID(job) THEN String(job.count)
                             ELSE completed[id]]
        /\ UNCHANGED <<backlog_queue, backlog_hset>>
     \/ /\ completed' = EmptyHash
        /\ \/ init.pc = "reconcile" /\ init.ignoreCompleted
           \/ calls'[1] # <<>> /\ calls'[1][1].op = "clearCompletedJobs"]_vars

\* the call read a ledger with A:t2 at 12 and B:t2 was completed with 12; the
\* last call, completeJob of A:t2 with 7, has set the entry of A:t2 and left
\* the entry of B:t2
C17_Witness ==
  /\ init.pc = "resolved"
  /\ init.before = <<>>
  /\ ~ init.ignoreCompleted
  /\ init.completed0 = (ID("A", "t2") :> String(12))
  /\ calls[1] # <<>>
  /\ LastCall(1).op = "completeJob"
  /\ getID(LastCall(1).job) = ID("A", "t2")
  /\ completed = (ID("A", "t2") :> String(7)) @@ (ID("B", "t2") :> String(12))


\* ------------------------------------------------------- two Manager objects
\* new Manager(sourceEs, redisClient): the object keeps sourceEs in
\* self.source; the module variables source and redis are assigned, the
\* filters and the comparator are left as they are.  redisClient is kept here
\* to tell what the object was constructed with.
Manager(self, sourceEs, redisClient) ==
  /\ self \notin DOMAIN instances
  /\ instances' = [m \in DOMAIN instances \cup {self} |->
                     IF m = self
                     THEN [source |-> sourceEs, redisClient |-> redisClient]
                     ELSE instances[m]]
  /\ source' = sourceEs
  /\ redis' = redisClient
  /\ UNCHANGED <<backlog_queue, backlog_hset, completed, pc, local, calls,
                 seeded, configVars, init, totalCount>>

NextInstances ==
  \/ \E sourceEs \in {"sourceEs", "otherEs"} :
       \E redisClient \in {"redisClient", "otherClient"} :
         Manager("manager2", sourceEs, redisClient)
  \/ \E self \in DOMAIN instances :
       \/ \E filter \in FilterArguments : setIndexFilter(self, filter)
       \/ \E filter \in FilterArguments : setTypeFilter(self, filter)
       \/ \E comparator \in ComparatorArguments :
            setIndexComparator(self, comparator)
       \/ resetFiltersAndComparators(self)

SpecInstances == InitRerun /\ [][NextInstances]_vars

\* C18: a step made on one Manager object, its construction or a call of one
\* of its setters, leaves the index filter, the type filter, the comparator,
\* the source handle and the store handle that the methods of every other
\* Manager object use.
C18_InstancesIndependent ==
  [][\A m \in DOMAIN instances :
       (\/ instances' # instances
        \/ calls'[1] # calls[1] /\ calls'[1][1].self # m) =>
         UNCHANGED <<indexFilter, typeFilter, indexComparator, source, redis>>]_vars


\* ---------------------------------------------------------- the total count
\* getTotalCount: () => { return totalCount; }
getTotalCount == totalCount

\* C19: when an initialize call has resolved, getTotalCount is the sum of the
\* counts of the jobs this call counted and queued, which getBacklogCount
\* gives too; for the first call of the process and for every later one.
C19_TotalIsSumOfThisCall ==
  init.pc = "resolved" =>
    /\ getTotalCount = SeqSum([k \in 1..Len(init.jobs) |-> init.jobs[k].count])
    /\ getTotalCount = getBacklogCount


\* --------------------------------------- fetchJob during an initialize call
\* C20: when the one initialize call has resolved and no fetchJob call is in
\* flight, every id in the backlog list has its entry in the hash, so that
\* the fetchJob that pops it reads the count initialize wrote.
C20_QueuedIdsKeepCount ==
  (/\ init.pc = "resolved"
   /\ init.before = <<>>
   /\ \A c \in Clients : pc[c] = "idle") =>
    \A id \in Range(backlog_queue) :
      /\ id \in DOMAIN backlog_hset
      /\ createFromID(id, hget(backlog_hset, id)).count # NaN


\* ----------------------------------------------- an interrupted fetchJob
\* fetchJob rejects after its lpop: the hget or the hdel fails in the store
\* (or the worker dies there).  The id is off the list and its hash field
\* stays.
fetchJob_rejects(c, keep) ==
  /\ pc[c] \in {"fetch_hget", "fetch_hdel"}
  /\ calls' = [calls EXCEPT ![c] =
                 Finished(c, [op |-> "fetchJob", job |-> NoJob,
                              rejected |-> TRUE], keep)]
  /\ local' = [local EXCEPT ![c] = NoLocal]
  /\ pc' = [pc EXCEPT ![c] = "idle"]
  /\ UNCHANGED <<backlog_queue, backlog_hset, completed, seeded, configVars,
                 handleVars, totalCount, init>>

NextStale ==
  \/ NextRequeue
  \/ \E c \in Clients : fetchJob_rejects(c, 1)

SpecStale == InitRequeue /\ [][NextStale]_vars

\* C21: when a queueJob call resolves, the id of its job is in the backlog
\* list, or a fetchJob that has popped it is about to return it, or another
\* queueJob that has written the hash field is about to push it: the job is
\* not left in no list and in no worker's hands.
C21_QueuedJobIsNotLost ==
  [][\A c \in Clients :
       (/\ calls'[c] # calls[c]
        /\ calls'[c][Len(calls'[c])].op = "queueJob") =>
         LET id == getID(calls'[c][Len(calls'[c])].job) IN
           \/ id \in Range(backlog_queue')
           \/ \E w \in Clients :
                /\ pc'[w] \in {"fetch_hget", "fetch_hdel"}
                /\ local'[w].jobID = id
           \/ \E w \in Clients :
                /\ pc'[w] = "queue_rpush"
                /\ getID(local'[w].job) = id]_vars


\* ------------------------------------------- workers that drain the backlog
\* One initialize call; once it has resolved every worker calls fetchJob
\* again and again, and nothing else is called.  A worker remembers all its
\* calls and makes at most MaxJobs + 1 of them.
FairFetch(c) ==
  /\ init.pc = "resolved"
  /\ Len(calls[c]) <= MaxJobs
  /\ fetchJob_lpop(c, MaxJobs + 1)

FairRead(c) == fetchJob_hget(c)

FairDelete(c) == fetchJob_hdel(c, MaxJobs + 1)

WorkerStep(c) == FairFetch(c) \/ FairRead(c) \/ FairDelete(c)

NextFair ==
  \/ InitializeCall
  \/ initialize_delHset
  \/ WorkersPrepare
  \/ initialize_clearCompletedJobs
  \/ initialize_getCompletedJobs
  \/ WorkersCount
  \/ initialize_queueJob_hset
  \/ initialize_queueJob_rpush
  \/ \E c \in Workers : FairFetch(c)
  \/ \E c \in Workers : FairRead(c)
  \/ \E c \in Workers : FairDelete(c)

\* the event loop of a worker process runs a step that stays possible
SpecFair ==
  /\ InitWorkers
  /\ [][NextFair]_vars
  /\ \A c \in Workers : WF_vars(WorkerStep(c))

\* the ids the fetchJob calls of worker c have returned, in order
ReturnedTo(c) ==
  LET returned == SelectSeq(calls[c], LAMBDA call : call.job # NoJob)
  IN [k \in 1..Len(returned) |-> getID(returned[k].job)]

\* every queued id was returned by one fetchJob call and the backlog is
\* empty: list, hash and count; the next fetchJob gets null from its lpop
Drained ==
  /\ init.pc = "resolved"
  /\ \A id \in Range(IdsOf(init.jobs)) :
       Cardinality({<<c, k>> \in Workers \X (1..(MaxJobs + 1)) :
                      k <= Len(ReturnedTo(c)) /\ ReturnedTo(c)[k] = id}) = 1
  /\ backlog_queue = <<>>
  /\ backlog_hset = EmptyHash
  /\ getBacklogCount = 0
  /\ lpop(backlog_queue).reply = NULL

\* C22: once initialize has resolved, with workers that keep calling
\* fetchJob and no other call, a state is reached from which on every queued
\* id has been returned by exactly one fetchJob, the backlog list and hash
\* are empty, getBacklogCount is 0 and a fetchJob finds no job.
C22_BacklogDrains == (init.pc = "resolved") ~> [] Drained

\* two jobs were queued, each worker got one of them and then no job
C22_Witness ==
  /\ init.pc = "resolved"
  /\ Len(init.jobs) = 2
  /\ Drained
  /\ Len(ReturnedTo(1)) = 1
  /\ Len(ReturnedTo(2)) = 1
  /\ LastCall(1).job = NoJob
  /\ LastCall(2).job = NoJob


====
